---- MODULE Spec2Model ----
(***************************************************************************)
(* Singleton.py: two lock-guarded lazy singletons.                         *)
(*   - DatabaseConnection: __new__ with double-checked locking on the      *)
(*     class attributes _instance/_lock, __init__ guarded by _initialized. *)
(*   - singleton(cls): a decorator whose closure holds an instances dict   *)
(*     and a lock; get_instance does double-checked locking around         *)
(*     the constructor call cls(..).                                       *)
(* Threads are preemptible between any two shared reads/writes; every      *)
(* action below is one such read or write (one source line, or the entry / *)
(* exit of a with block).                                                  *)
(***************************************************************************)
EXTENDS Naturals, FiniteSets, Sequences, TLC

\* Number of threads; each makes one call.
NumThreads == 3

Threads == 1..NumThreads

None == 0

\* The class using __new__ (line 11) and the classes wrapped by @singleton:
\* Logger (line 61) and a second decorated class whose constructor takes
\* arguments and may raise.
DB == "DatabaseConnection"
DecoratedClasses == {"Logger", "Service"}
Callables == {DB} \cup DecoratedClasses

\* Positional arguments a caller may pass.
NoArgs == "()"
ArgsSet == {NoArgs, "(x)"}

\* Number of log() calls.
MaxLogs == 2

\* The messages logged (lines 92-93).
Messages == {"First message", "Second message"}

\* No exception is propagating.
NoExc == "<none>"

\* An attribute that has not been assigned on an object.
Unset == "<unset>"

VARIABLES
    pc,            \* pc[t]: the line thread t is about to execute
    callee,        \* callee[t]: the callable thread t called
    args,          \* args[t]: the arguments thread t passed
    _instance,     \* DatabaseConnection._instance (None or an object id)
    _lock,         \* DatabaseConnection._lock: None or the holding thread
    _initialized,  \* DatabaseConnection._initialized
    heap,          \* DatabaseConnection objects: heap[id] = its attributes
    initBy,        \* threads that executed the guarded body of __init__
    instances,     \* instances[c]: the closure dict of singleton(c): None or an id
    lock,          \* lock[k]: the closure lock k: None or the holding thread
    ctorLog,       \* every execution of the constructor call cls(..) at line 55
    self,          \* self[t]: the object __new__ returned to thread t
    exc,           \* exc[t]: the exception propagating in / delivered to thread t
    ret,           \* ret[t]: the handle returned to thread t
    logs,          \* logs[id]: the logs list of Logger object id
    logged         \* the messages passed to log(), in the order of the calls

vars == <<pc, callee, args, _instance, _lock, _initialized, heap, initBy,
          instances, lock, ctorLog, self, exc, ret, logs, logged>>

dbVars == <<_instance, _lock, _initialized, heap, initBy, self>>
decVars == <<instances, lock, ctorLog, exc>>
logVars == <<logs, logged>>

Init ==
    /\ pc = [t \in Threads |-> "idle"]
    /\ callee = [t \in Threads |-> DB]
    /\ args = [t \in Threads |-> NoArgs]
    /\ _instance = None
    /\ _lock = None
    /\ _initialized = FALSE
    /\ heap = <<>>
    /\ initBy = {}
    /\ instances = [c \in DecoratedClasses |-> None]
    /\ lock = [c \in DecoratedClasses |-> None]
    /\ ctorLog = {}
    /\ self = [t \in Threads |-> None]
    /\ exc = [t \in Threads |-> NoExc]
    /\ ret = [t \in Threads |-> None]
    /\ logs = [i \in {} |-> <<>>]
    /\ logged = <<>>

Goto(t, l) == pc' = [pc EXCEPT ![t] = l]

\* The calls a thread can make: DatabaseConnection() (lines 82-83), which
\* takes no arguments, or a decorated class with some arguments (lines 89-90).
Calls ==
    <<[c |-> DB, a |-> NoArgs],
      [c |-> "Logger", a |-> NoArgs], [c |-> "Logger", a |-> "(x)"],
      [c |-> "Service", a |-> NoArgs], [c |-> "Service", a |-> "(x)"]>>

CallOf(t) == CHOOSE i \in 1..Len(Calls) : Calls[i] = [c |-> callee[t], a |-> args[t]]

\* A thread starts its call, entering __new__ resp. get_instance.  Threads
\* are interchangeable, so they are numbered in the order of Calls: of each
\* set of threads that differ only by a renaming, one is explored.
CallAmong(t, I) ==
    /\ pc[t] = "idle"
    /\ \E i \in I :
        /\ \A u \in Threads : pc[u] # "idle" =>
              /\ u < t => CallOf(u) <= i
              /\ u > t => CallOf(u) >= i
        /\ callee' = [callee EXCEPT ![t] = Calls[i].c]
        /\ args' = [args EXCEPT ![t] = Calls[i].a]
        /\ Goto(t, IF Calls[i].c = DB THEN "n22" ELSE "g52")
    /\ UNCHANGED <<dbVars, decVars, ret, logVars>>

Call(t) == CallAmong(t, 1..Len(Calls))

----------------------------------------------------------------------------
\* DatabaseConnection.__new__ (lines 21-26)

\* line 22: if cls._instance is None
New22(t) ==
    /\ pc[t] = "n22"
    /\ Goto(t, IF _instance = None THEN "n23" ELSE "n26")
    /\ UNCHANGED <<callee, args, dbVars, decVars, ret, logVars>>

\* New23 with a lock that does not exclude: the with block is entered even
\* when another thread holds the lock.
New23NoExclusion(t) ==
    /\ pc[t] = "n23"
    /\ _lock' = t
    /\ Goto(t, "n24")
    /\ UNCHANGED <<callee, args, _instance, _initialized, heap, initBy, self,
                   decVars, ret, logVars>>

\* line 23: with cls._lock (acquire)
New23(t) ==
    /\ pc[t] = "n23"
    /\ _lock = None
    /\ _lock' = t
    /\ Goto(t, "n24")
    /\ UNCHANGED <<callee, args, _instance, _initialized, heap, initBy, self,
                   decVars, ret, logVars>>

\* New24 without the second check: a thread that got the lock always
\* allocates.
New24NoRecheck(t) ==
    /\ pc[t] = "n24"
    /\ Goto(t, "n25")
    /\ UNCHANGED <<callee, args, dbVars, decVars, ret, logVars>>

\* line 24: if cls._instance is None (under the lock)
New24(t) ==
    /\ pc[t] = "n24"
    /\ Goto(t, IF _instance = None THEN "n25" ELSE "n23x")
    /\ UNCHANGED <<callee, args, dbVars, decVars, ret, logVars>>

\* line 25: cls._instance = super().__new__(cls): a fresh object without
\* instance attributes.
New25(t) ==
    /\ pc[t] = "n25"
    /\ heap' = Append(heap, [connection_string |-> Unset, connected |-> Unset])
    /\ _instance' = Len(heap) + 1
    /\ Goto(t, "n23x")
    /\ UNCHANGED <<callee, args, _lock, _initialized, initBy, self, decVars, ret, logVars>>

\* leaving the with block of line 23 (release)
NewExit(t) ==
    /\ pc[t] = "n23x"
    /\ _lock' = IF _lock = t THEN None ELSE _lock
    /\ Goto(t, "n26")
    /\ UNCHANGED <<callee, args, _instance, _initialized, heap, initBy, self,
                   decVars, ret, logVars>>

\* line 26: return cls._instance; type.__call__ then runs __init__ on it.
New26(t) ==
    /\ pc[t] = "n26"
    /\ self' = [self EXCEPT ![t] = _instance]
    /\ Goto(t, "i29")
    /\ UNCHANGED <<callee, args, _instance, _lock, _initialized, heap, initBy,
                   decVars, ret, logVars>>

----------------------------------------------------------------------------
\* DatabaseConnection.__init__ (lines 28-32), not under the lock

\* line 29: if not self.__class__._initialized; when the flag is set
\* __init__ returns and the call hands the object to the caller.
Init29(t) ==
    /\ pc[t] = "i29"
    /\ IF _initialized
         THEN /\ Goto(t, "done")
              /\ ret' = [ret EXCEPT ![t] = self[t]]
         ELSE /\ Goto(t, "i30")
              /\ UNCHANGED ret
    /\ UNCHANGED <<callee, args, dbVars, decVars, logVars>>

\* Init30 with the flag set at the start of the guarded body instead of its
\* end.
Init30FlagFirst(t) ==
    /\ pc[t] = "i30"
    /\ _initialized' = TRUE
    /\ heap' = [heap EXCEPT ![self[t]].connection_string = "localhost:5432"]
    /\ initBy' = initBy \cup {t}
    /\ Goto(t, "i31")
    /\ UNCHANGED <<callee, args, _instance, _lock, self, decVars, ret, logVars>>

\* line 30: self.connection_string = "localhost:5432"
Init30(t) ==
    /\ pc[t] = "i30"
    /\ heap' = [heap EXCEPT ![self[t]].connection_string = "localhost:5432"]
    /\ initBy' = initBy \cup {t}
    /\ Goto(t, "i31")
    /\ UNCHANGED <<callee, args, _instance, _lock, _initialized, self, decVars, ret, logVars>>

\* line 31: self.connected = True
Init31(t) ==
    /\ pc[t] = "i31"
    /\ heap' = [heap EXCEPT ![self[t]].connected = "True"]
    /\ Goto(t, "i32")
    /\ UNCHANGED <<callee, args, _instance, _lock, _initialized, initBy, self,
                   decVars, ret, logVars>>

\* line 32: self.__class__._initialized = True; __init__ returns and the
\* call hands the object to the caller.
Init32(t) ==
    /\ pc[t] = "i32"
    /\ _initialized' = TRUE
    /\ ret' = [ret EXCEPT ![t] = self[t]]
    /\ Goto(t, "done")
    /\ UNCHANGED <<callee, args, _instance, _lock, heap, initBy, self, decVars, logVars>>

----------------------------------------------------------------------------
\* singleton(cls).get_instance (lines 51-56)

\* LockOf with one lock created at module level and shared by the closures
\* of all decorated classes.
LockOfShared(c) == "Logger"

\* line 49: lock = threading.Lock() is created by each call of singleton(),
\* so the closure of each decorated class has a lock of its own.
LockOf(c) == c

\* The constructor of a decorated class applied to arguments a: "ok" or the
\* exception it raises.  Logger.__init__(self) (line 67) takes no arguments,
\* so any argument is a TypeError; the second decorated class accepts any
\* arguments and its constructor may raise.
CtorOutcomes(c, a) ==
    IF c = "Logger"
      THEN (IF a = NoArgs THEN {"ok"} ELSE {"TypeError"})
      ELSE {"ok", "Error"}

\* The arguments line 55 passes on to the constructor: the caller's own.
CtorArgs(t) == args[t]

\* line 68: self.logs = [] in Logger.__init__: the Logger object id starts
\* with an empty logs list; objects of other classes have no logs.
InitLogs(c, id) ==
    IF c = "Logger"
      THEN [i \in DOMAIN logs \cup {id} |-> IF i = id THEN <<>> ELSE logs[i]]
      ELSE logs

\* Identity of the next object a decorated class constructs.
NewId == Cardinality({r \in ctorLog : r.out = "ok"}) + 1

\* Get52 without the unlocked first check: every call goes for the lock.
Get52AlwaysLock(t) ==
    /\ pc[t] = "g52"
    /\ Goto(t, "g53")
    /\ UNCHANGED <<callee, args, dbVars, decVars, ret, logVars>>

\* line 52: if cls not in instances
Get52(t) ==
    /\ pc[t] = "g52"
    /\ Goto(t, IF instances[callee[t]] = None THEN "g53" ELSE "g56")
    /\ UNCHANGED <<callee, args, dbVars, decVars, ret, logVars>>

\* Get53 with a lock that does not exclude: the with block is entered even
\* when another thread holds the lock.
Get53NoExclusion(t) ==
    /\ pc[t] = "g53"
    /\ lock' = [lock EXCEPT ![LockOf(callee[t])] = t]
    /\ Goto(t, "g54")
    /\ UNCHANGED <<callee, args, dbVars, instances, ctorLog, exc, ret, logVars>>

\* line 53: with lock (acquire)
Get53(t) ==
    /\ pc[t] = "g53"
    /\ lock[LockOf(callee[t])] = None
    /\ lock' = [lock EXCEPT ![LockOf(callee[t])] = t]
    /\ Goto(t, "g54")
    /\ UNCHANGED <<callee, args, dbVars, instances, ctorLog, exc, ret, logVars>>

\* Get54 comparing arguments: an instance built from other arguments than
\* the caller's is rebuilt.
Get54Override(t) ==
    /\ pc[t] = "g54"
    /\ Goto(t, IF \/ instances[callee[t]] = None
                  \/ \E r \in ctorLog : r.id = instances[callee[t]] /\ r.args # args[t]
               THEN "g55" ELSE "g53x")
    /\ UNCHANGED <<callee, args, dbVars, decVars, ret, logVars>>

\* Get54 without the second check: a thread that got the lock always
\* constructs.
Get54NoRecheck(t) ==
    /\ pc[t] = "g54"
    /\ Goto(t, "g55")
    /\ UNCHANGED <<callee, args, dbVars, decVars, ret, logVars>>

\* line 54: if cls not in instances (under the lock)
Get54(t) ==
    /\ pc[t] = "g54"
    /\ Goto(t, IF instances[callee[t]] = None THEN "g55" ELSE "g53x")
    /\ UNCHANGED <<callee, args, dbVars, decVars, ret, logVars>>

\* Get55 caching before the constructor has succeeded: when the constructor
\* raises, the half-built object stays in instances.
Get55CacheFailure(t) ==
    /\ pc[t] = "g55"
    /\ \E out \in CtorOutcomes(callee[t], CtorArgs(t)) :
        /\ ctorLog' = ctorLog \cup
              {[id |-> IF out = "ok" THEN NewId ELSE None, cls |-> callee[t],
                args |-> CtorArgs(t), by |-> t, out |-> out]}
        /\ instances' = [instances EXCEPT ![callee[t]] = NewId]
        /\ IF out = "ok"
             THEN /\ Goto(t, "g53x")
                  /\ UNCHANGED exc
             ELSE /\ exc' = [exc EXCEPT ![t] = out]
                  /\ Goto(t, "g53r")
        /\ logs' = IF out = "ok" THEN InitLogs(callee[t], NewId) ELSE logs
    /\ UNCHANGED <<callee, args, dbVars, lock, ret, logged>>

\* line 55: instances[cls] = the constructor call cls(..).  When the
\* constructor raises, the assignment is not executed and the exception
\* unwinds through the with block.
Get55(t) ==
    /\ pc[t] = "g55"
    /\ \E out \in CtorOutcomes(callee[t], CtorArgs(t)) :
        /\ ctorLog' = ctorLog \cup
              {[id |-> IF out = "ok" THEN NewId ELSE None, cls |-> callee[t],
                args |-> CtorArgs(t), by |-> t, out |-> out]}
        /\ IF out = "ok"
             THEN /\ instances' = [instances EXCEPT ![callee[t]] = NewId]
                  /\ Goto(t, "g53x")
                  /\ UNCHANGED exc
             ELSE /\ exc' = [exc EXCEPT ![t] = out]
                  /\ Goto(t, "g53r")
                  /\ UNCHANGED instances
        /\ logs' = IF out = "ok" THEN InitLogs(callee[t], NewId) ELSE logs
    /\ UNCHANGED <<callee, args, dbVars, lock, ret, logged>>

\* GetExit without the release: the lock stays held after the with block.
GetExitNoRelease(t) ==
    /\ pc[t] = "g53x"
    /\ Goto(t, "g56")
    /\ UNCHANGED <<callee, args, dbVars, instances, lock, ctorLog, exc, ret, logVars>>

\* leaving the with block of line 53 normally (release)
GetExit(t) ==
    /\ pc[t] = "g53x"
    /\ lock' = [k \in DecoratedClasses |-> IF lock[k] = t THEN None ELSE lock[k]]
    /\ Goto(t, "g56")
    /\ UNCHANGED <<callee, args, dbVars, instances, ctorLog, exc, ret, logVars>>

\* GetExitRaise without the release: the exception leaves get_instance with
\* the lock still held.
GetExitRaiseKeepLock(t) ==
    /\ pc[t] = "g53r"
    /\ Goto(t, "raised")
    /\ UNCHANGED <<callee, args, dbVars, instances, lock, ctorLog, exc, ret, logVars>>

\* leaving the with block of line 53 with an exception: Lock.__exit__
\* releases and does not suppress, so the exception reaches the caller.
GetExitRaise(t) ==
    /\ pc[t] = "g53r"
    /\ lock' = [k \in DecoratedClasses |-> IF lock[k] = t THEN None ELSE lock[k]]
    /\ Goto(t, "raised")
    /\ UNCHANGED <<callee, args, dbVars, instances, ctorLog, exc, ret, logVars>>

\* Get56 running the constructor body again on the cached instance, as
\* type.__call__ does with __init__ in the __new__ variant: logs is reset.
Get56Reinit(t) ==
    /\ pc[t] = "g56"
    /\ ret' = [ret EXCEPT ![t] = instances[callee[t]]]
    /\ logs' = InitLogs(callee[t], instances[callee[t]])
    /\ Goto(t, "done")
    /\ UNCHANGED <<callee, args, dbVars, decVars, logged>>

\* line 56: return instances[cls]
Get56(t) ==
    /\ pc[t] = "g56"
    /\ ret' = [ret EXCEPT ![t] = instances[callee[t]]]
    /\ Goto(t, "done")
    /\ UNCHANGED <<callee, args, dbVars, decVars, logVars>>

----------------------------------------------------------------------------
\* Logger.log (lines 70-71): self.logs.append(message), through the handle
\* a Logger() call returned; list.append is one atomic step.
Log(t, m) ==
    /\ pc[t] = "done"
    /\ callee[t] = "Logger"
    /\ Len(logged) < MaxLogs
    /\ logs' = [logs EXCEPT ![ret[t]] = Append(@, m)]
    /\ logged' = Append(logged, m)
    /\ UNCHANGED <<pc, callee, args, dbVars, decVars, ret>>

\* Logger.get_logs (lines 73-74) through handle h: return self.logs
get_logs(h) == logs[h]

----------------------------------------------------------------------------
\* A step of DatabaseConnection() resp. of get_instance
StepNew(t) ==
    \/ New22(t) \/ New23(t) \/ New24(t) \/ New25(t) \/ NewExit(t) \/ New26(t)
    \/ Init29(t) \/ Init30(t) \/ Init31(t) \/ Init32(t)

StepGet(t) ==
    \/ Get52(t) \/ Get53(t) \/ Get54(t) \/ Get55(t) \/ GetExit(t)
    \/ GetExitRaise(t) \/ Get56(t)

Step(t) == StepNew(t) \/ StepGet(t)

Next == \E t \in Threads : Call(t) \/ Step(t)

Spec == Init /\ [][Next]_vars

\* Threads that call Logger, with or without arguments, and log messages
\* through the handles they got (lines 89-93).
CallLogger(t) == CallAmong(t, {i \in 1..Len(Calls) : Calls[i].c = "Logger"})

NextLogger ==
    \E t \in Threads : CallLogger(t) \/ StepGet(t) \/ \E m \in Messages : Log(t, m)

LoggerSpec == Init /\ [][NextLogger]_vars

\* The scheduler runs every thread that is inside a call and able to take a
\* step (a thread waiting for a lock is able once the lock is free).
FairSpec == Spec /\ \A t \in Threads : WF_vars(Step(t))

----------------------------------------------------------------------------
\* Vocabulary of the properties

Returned(t) == pc[t] = "done"
Raised(t) == pc[t] = "raised"

\* Successful resp. failed executions of the constructor of class c.
OkLog(c) == {r \in ctorLog : r.cls = c /\ r.out = "ok"}
FailLog(c) == {r \in ctorLog : r.cls = c /\ r.out # "ok"}

\* Handles returned so far by the cell of callable c.
Handles(c) == {ret[t] : t \in {u \in Threads : Returned(u) /\ callee[u] = c}}

\* Threads inside the with block of callable c.
InWith(c) ==
    {t \in Threads : callee[t] = c /\ pc[t] \in
        {"n24", "n25", "n23x", "g54", "g55", "g53x", "g53r"}}

\* Locks of decorator closures held by thread t.
HeldBy(t) == {k \in DecoratedClasses : lock[k] = t}
----------------------------------------------------------------------------
\* C1: decorator variant: for every decorated class, in every interleaving
\* of the callers of its get_instance, the constructor has completed
\* successfully at most once, and exactly once as soon as some call has
\* returned.
C1_ConstructedExactlyOnce ==
    \A c \in DecoratedClasses :
        /\ Cardinality(OkLog(c)) <= 1
        /\ (\E t \in Threads : Returned(t) /\ callee[t] = c)
              => Cardinality(OkLog(c)) = 1

\* Three callers of one decorated class have all returned; two of them did
\* not construct.
C1_Witness ==
    \E c \in DecoratedClasses :
        /\ Cardinality({t \in Threads : Returned(t) /\ callee[t] = c}) >= 3
        /\ Cardinality(OkLog(c)) = 1

\* C2: __new__ variant: in every interleaving of the callers of
\* DatabaseConnection(), line 25 allocates at most once, so at most one
\* DatabaseConnection object exists.
C2_AllocatedAtMostOnce == Len(heap) <= 1

\* Three callers of DatabaseConnection() have all returned and one object
\* exists.
C2_Witness ==
    /\ Cardinality({t \in Threads : Returned(t) /\ callee[t] = DB}) >= 3
    /\ Len(heap) = 1

\* C3: in both variants all calls of one callable that return, return the
\* same instance: the set of handles a cell has returned has at most one
\* element.
C3_SameInstance == \A c \in Callables : Cardinality(Handles(c)) <= 1

\* Two callers of DatabaseConnection() hold the same object, and a caller of
\* a decorated class holds that class's instance.
C3_Witness ==
    /\ \E t, u \in Threads :
          /\ t # u /\ Returned(t) /\ Returned(u)
          /\ callee[t] = DB /\ callee[u] = DB
          /\ ret[t] = ret[u] /\ ret[t] # None
    /\ \E v \in Threads :
          Returned(v) /\ callee[v] \in DecoratedClasses /\ ret[v] = instances[callee[v]]

\* C4: __new__ variant: once all callers of DatabaseConnection() have
\* returned, the guarded body of __init__ (lines 30-32) has been executed
\* exactly once.
C4_InitBodyOnce ==
    (/\ \A t \in Threads : pc[t] \in {"idle", "done", "raised"}
     /\ \E t \in Threads : Returned(t) /\ callee[t] = DB)
        => Cardinality(initBy) = 1
\* C5: decorator variant: when the constructor raises inside get_instance,
\* the exception reaches the caller whose construction failed, unchanged,
\* and at that moment the class has no entry in instances and the caller
\* holds no lock; no step sets the exception of a thread other than the one
\* whose constructor call raised in that step.
C5_FailureStep ==
    \A t \in Threads :
        /\ (pc[t] # "raised" /\ pc'[t] = "raised") =>
              /\ instances'[callee[t]] = None
              /\ \A k \in DecoratedClasses : lock'[k] # t
              /\ lock'[LockOf(callee[t])] = None
              /\ \E r \in FailLog(callee[t]) : r.by = t /\ r.out = exc'[t]
        /\ exc'[t] # exc[t] =>
              \E r \in ctorLog' \ ctorLog : r.by = t /\ r.out # "ok" /\ r.out = exc'[t]
        /\ pc'[t] = "done" => exc'[t] = NoExc

C5_ConstructionFailure == [][C5_FailureStep]_vars

\* A caller has received the constructor's error while another caller, which
\* was waiting for the lock, is inside the with block.
C5_Witness ==
    \E t, u \in Threads :
        /\ Raised(t) /\ exc[t] = "Error"
        /\ callee[u] = callee[t] /\ pc[u] = "g54" /\ exc[u] = NoExc

\* C6: decorator variant: as long as no construction of a class has
\* succeeded, whatever number has failed, a caller that got the lock goes on
\* to run the constructor; once a construction has succeeded its result is
\* the cached instance and the constructor of that class is never executed
\* again, so it succeeds at most once.
C6_RetryStep ==
    /\ \A t \in Threads :
          (pc[t] = "g54" /\ pc'[t] # "g54" /\ OkLog(callee[t]) = {})
              => pc'[t] = "g55"
    /\ \A c \in DecoratedClasses :
          /\ OkLog(c) # {} =>
                {r \in ctorLog' : r.cls = c} = {r \in ctorLog : r.cls = c}
          /\ Cardinality({r \in ctorLog' : r.cls = c /\ r.out = "ok"}) <= 1
          /\ \A r \in ctorLog' : (r.cls = c /\ r.out = "ok") => instances'[c] = r.id

C6_FailureThenRetry == [][C6_RetryStep]_vars

\* Two constructions of a class failed, a third succeeded and its caller
\* returned.
C6_Witness ==
    \E c \in DecoratedClasses :
        /\ Cardinality(FailLog(c)) >= 2
        /\ \E r \in OkLog(c) : Returned(r.by) /\ ret[r.by] = r.id

C8_PerKeyIndependence ==
    /\ \A c, d \in DecoratedClasses :
          (c # d /\ instances[c] # None) => instances[c] # instances[d]
    /\ \A k \in DecoratedClasses :
          lock[k] # None => lock[k] \in InWith(k)
    /\ _lock # None => _lock \in InWith(DB)
    /\ \A u \in Threads :
          /\ (pc[u] = "g53" /\ InWith(callee[u]) = {}) => ENABLED Get53(u)
          /\ (pc[u] = "n23" /\ InWith(DB) = {}) => ENABLED New23(u)

\* While one thread is inside the constructor of Logger and another inside
\* the allocation of DatabaseConnection, a caller of Service that found its
\* cell empty has entered Service's with block.
C8_Witness ==
    \E t, u, v \in Threads :
        /\ callee[t] = "Logger" /\ pc[t] = "g55"
        /\ callee[v] = DB /\ pc[v] = "n25"
        /\ callee[u] = "Service" /\ pc[u] = "g54" /\ lock["Service"] = u

\* C9: __new__ variant: whenever a DatabaseConnection() call has returned,
\* the object it returned has connection_string and connected assigned.
C9_NoPartialInit ==
    \A t \in Threads :
        (Returned(t) /\ callee[t] = DB) =>
            /\ heap[ret[t]].connection_string # Unset
            /\ heap[ret[t]].connected # Unset

\* A caller that skipped the guarded body of __init__ has returned the
\* object that another caller initialized.
C9_Witness ==
    \E t \in Threads :
        /\ Returned(t) /\ callee[t] = DB /\ t \notin initBy
        /\ heap[ret[t]].connected = "True"

\* The locks thread t holds.
LocksHeld(t) == HeldBy(t) \cup (IF _lock = t THEN {DB} ELSE {})

\* C10: a thread holds at most one lock and none while it waits for one,
\* and under fair scheduling every call that was started returns or raises:
\* from some point on no thread is inside a call.
C10_Termination ==
    /\ [](\A t \in Threads :
            /\ Cardinality(LocksHeld(t)) <= 1
            /\ pc[t] \in {"n23", "g53"} => LocksHeld(t) = {})
    /\ <>[](\A t \in Threads : pc[t] \in {"idle", "done", "raised"})

\* Two callers wait at line 53 for the lock a third holds inside the
\* constructor.
C10_Witness ==
    \E t, u, v \in Threads :
        /\ t # u
        /\ pc[t] = "g53" /\ pc[u] = "g53" /\ pc[v] = "g55"
        /\ callee[t] = callee[v] /\ callee[u] = callee[v]
        /\ lock[callee[v]] = v
\* C11: in both variants, once the shared slot is non-empty no step
\* empties it or makes it refer to another instance.
C11_SlotStep ==
    /\ _instance # None => _instance' = _instance
    /\ \A c \in DecoratedClasses : instances[c] # None => instances'[c] = instances[c]

C11_OccupiedTerminal == [][C11_SlotStep]_vars

\* Both kinds of slot are occupied: a DatabaseConnection() call has
\* returned, and a caller of a decorated class that came through the lock
\* after the slot was filled is about to return.
C11_Witness ==
    /\ _instance # None
    /\ \E t \in Threads : Returned(t) /\ callee[t] = DB
    /\ \E c \in DecoratedClasses, u \in Threads :
          /\ instances[c] # None /\ callee[u] = c /\ pc[u] = "g53x"
          /\ \A r \in ctorLog : r.by # u

\* Callers of callable c that have passed the re-check and are executing
\* the allocation of line 25 resp. the constructor call of line 55.
Constructing(c) == {t \in Threads : callee[t] = c /\ pc[t] \in {"n25", "g55"}}

\* C12: in every state at most one caller per cell is constructing, and it
\* holds the cell's lock; a step that writes the slot is a step of the
\* caller holding that cell's lock.
C12_ConstructionStep ==
    /\ \A c \in DecoratedClasses :
          /\ Cardinality(Constructing(c)) <= 1
          /\ \A t \in Constructing(c) : lock[LockOf(c)] = t
          /\ instances'[c] # instances[c] =>
                \E t \in Threads : lock[LockOf(c)] = t /\ callee[t] = c /\ pc'[t] # pc[t]
    /\ Cardinality(Constructing(DB)) <= 1
    /\ \A t \in Constructing(DB) : _lock = t
    /\ _instance' # _instance =>
          \E t \in Threads : _lock = t /\ callee[t] = DB /\ pc'[t] # pc[t]

C12_MutualExclusion == [][C12_ConstructionStep]_vars

\* A caller is inside the constructor of a decorated class while two other
\* callers of that class, which also saw the slot empty, wait for the lock.
C12_Witness ==
    \E c \in DecoratedClasses :
        /\ Constructing(c) # {}
        /\ Cardinality({u \in Threads : callee[u] = c /\ pc[u] = "g53"}) >= 2

\* C13: a caller that got the lock re-reads the slot; when it finds it
\* occupied it leaves the with block without allocating or constructing,
\* releases the lock and returns the instance in the slot.  While a caller
\* waits for or holds the lock, at most one construction of its cell has
\* succeeded.
C13_RecheckStep ==
    \A t \in Threads :
        /\ (pc[t] = "g54" /\ pc'[t] # pc[t] /\ instances[callee[t]] # None) =>
              pc'[t] = "g53x" /\ ctorLog' = ctorLog /\ instances' = instances
        /\ (pc[t] = "g53x" /\ pc'[t] # pc[t]) =>
              pc'[t] = "g56" /\ lock'[LockOf(callee[t])] = None
        /\ (pc[t] = "g56" /\ pc'[t] # pc[t]) =>
              pc'[t] = "done" /\ ret'[t] = instances[callee[t]] /\ ret'[t] # None
        /\ (pc[t] = "n24" /\ pc'[t] # pc[t] /\ _instance # None) =>
              pc'[t] = "n23x" /\ heap' = heap /\ _instance' = _instance
        /\ (pc[t] = "n23x" /\ pc'[t] # pc[t]) => pc'[t] = "n26" /\ _lock' = None
        /\ (pc[t] = "n26" /\ pc'[t] # pc[t]) => self'[t] = _instance /\ self'[t] # None
        /\ pc[t] \in {"g53", "g54"} => Cardinality(OkLog(callee[t])) <= 1
        /\ pc[t] \in {"n23", "n24"} => Len(heap) <= 1

C13_Recheck == [][C13_RecheckStep]_vars

\* A caller that saw the slot empty at the first check holds the lock in
\* front of the re-check with the slot occupied, while the caller that
\* filled the slot has returned.
C13_Witness ==
    \E t, u \in Threads :
        /\ pc[t] = "n24" /\ _instance # None
        /\ Returned(u) /\ callee[u] = DB /\ u \in initBy

\* The lines of a call that found the slot occupied at the first check.
FastPath == {"n22", "n26", "i29", "g52", "g56"}

\* C14: a call that finds the slot occupied at the first check goes straight
\* to the return statement without touching the lock, and every step of that
\* path can be taken whatever the state of the locks.
C14_FastStep ==
    \A t \in Threads :
        /\ (pc[t] = "g52" /\ pc'[t] # pc[t] /\ instances[callee[t]] # None) =>
              pc'[t] = "g56" /\ lock' = lock
        /\ (pc[t] = "n22" /\ pc'[t] # pc[t] /\ _instance # None) =>
              pc'[t] = "n26" /\ _lock' = _lock
        /\ (pc[t] \in {"g56", "n26", "i29"} /\ pc'[t] # pc[t]) =>
              lock' = lock /\ _lock' = _lock

C14_LockFreeFastPath ==
    /\ [](\A t \in Threads : pc[t] \in FastPath => ENABLED Step(t))
    /\ [][C14_FastStep]_vars

\* A call is at the first check with the slot occupied while a caller that
\* lost the race holds the lock in front of its re-check.
C14_Witness ==
    \E t, u \in Threads :
        /\ pc[t] = "g52" /\ instances[callee[t]] # None
        /\ pc[u] = "g54" /\ callee[u] = callee[t] /\ lock[LockOf(callee[t])] = u
\* C15: __new__ variant: once a DatabaseConnection() call has returned, no
\* call executes the assignments of lines 30 and 31 any more, and neither
\* attribute of the instance changes.
C15_LateWriteStep ==
    (\E u \in Threads : Returned(u) /\ callee[u] = DB) =>
        /\ \A t \in Threads : pc[t] \in {"i30", "i31"} => pc'[t] = pc[t]
        /\ heap' = heap

C15_NoLaterWrites == [][C15_LateWriteStep]_vars

\* C16: through every handle a Logger() call has returned, get_logs()
\* returns the messages passed to log(), each once and in the order of the
\* log calls: no Logger() call clears or replaces the list.
C16_SharedLogs ==
    \A t \in Threads :
        (Returned(t) /\ callee[t] = "Logger") => get_logs(ret[t]) = logged

\* Two messages were logged, a Logger(x) call failed with TypeError, and
\* through the handles of two Logger() callers both messages are read.
C16_Witness ==
    /\ Len(logged) >= 2
    /\ Cardinality({t \in Threads : Returned(t) /\ callee[t] = "Logger"}) >= 2
    /\ \E u \in Threads : Raised(u) /\ exc[u] = "TypeError"
    /\ \A t \in Threads :
          (Returned(t) /\ callee[t] = "Logger") => Len(get_logs(ret[t])) >= 2

\* C17: __new__ variant: whenever _initialized is True, _instance is set and
\* the instance has connection_string and connected assigned; no step sets
\* _initialized back to False.
C17_FlagStep ==
    /\ _initialized => _initialized'
    /\ _initialized' =>
          /\ _instance' # None
          /\ heap'[_instance'].connection_string # Unset
          /\ heap'[_instance'].connected # Unset

C17_FlagConsistency == [][C17_FlagStep]_vars

\* The flag is set while a second caller, which read it as False, is still
\* inside the guarded body of __init__.
C17_Witness ==
    /\ _initialized
    /\ \E t \in Threads : pc[t] \in {"i30", "i31", "i32"}

====
